---- MODULE Spec2Model ----
(***************************************************************************)
(* The image-compressor backend (src/scripts/start-prod.js): the User and  *)
(* CompressionHistory collections, the uploads directory, the two rate     *)
(* limiters, the JWT middlewares and the route handlers.                   *)
(*                                                                         *)
(* A handler with several awaited database operations whose interleaving   *)
(* with other requests can be observed (compress, register, profile) is    *)
(* one action per awaited step, its locals kept in a slot of `inflight`.   *)
(* Every other handler is one action.  A database operation is atomic and  *)
(* succeeds; the codec and the artifact write may fail.                    *)
(***************************************************************************)
EXTENDS Integers, Sequences, FiniteSets, TLC

\* ------------------------------------------------------------- bounds
MaxUsers == 2        \* users the User collection may hold
MaxCompress == 2     \* compress requests that reach the handler with a file
MaxInflight == 2     \* requests in flight at once
MaxOver == 1         \* requests counted past a limiter's max
MaxHistory == 4      \* records the collection holds when the history is listed

\* ------------------------------------------------- program constants
AuthMax == 10
CompressionMax == 100
MinPasswordLength == 6
MinUsernameLength == 3

\* ------------------------------------------------------------- inputs
Usernames == {"", "al", "alice", "bob"}
Emails == {"", "a@x", "A@x", "b@x"}
Passwords == {"", "abc12", "secret1", "hunter22"}
OriginalSizes == {12}
CompressedSizes == {4, 13}
UploadKinds == {"none", "notImage", "tooLarge", "image"}
Clients == {"ip1", "ip2"}
Limiters == {"auth", "compression"}

NoUser == 0
NoRecord == 0
NoFile == 0
UserIds == 1..MaxUsers
RecordIds == 1..MaxCompress
FileNames == 1..MaxCompress
Slots == 1..MaxInflight

VARIABLES
    users,      \* the User collection: _id -> document
    records,    \* the CompressionHistory collection: _id -> document
    files,      \* the names of the files in uploadsDir
    nextFile,   \* the uuids handed out so far
    nextRecord, \* the CompressionHistory _ids handed out so far
    inflight,   \* slot -> the locals of a request between two awaits
    ever,       \* history: per user, the records ever saved and their savings
    removed,    \* history: the files and records that delete and cleanup removed
    resp,       \* the last response sent
    limiter,    \* the rateLimit instance whose store `hits` is
    hits,       \* the limiter's store: client address -> hits in this window
    admitted,   \* history: client address -> requests passed on in this window
    verdict,    \* what the limiter did with the last request
    options,    \* the form fields of a compress request and what they resolve to
    hook,       \* the state of the client's useImageCompression hook
    app         \* the state of the App component that calls the hook

dbVars == <<users, records, files, nextFile, nextRecord, ever, removed>>
rlVars == <<limiter, hits, admitted, verdict>>
auxVars == <<options, hook, app>>
vars == <<users, records, files, nextFile, nextRecord, inflight, ever, removed, resp,
          limiter, hits, admitted, verdict, options, hook, app>>

\* ---------------------------------------------------- schema setters
\* userSchema.email: lowercase: true (applied to documents and to query filters)
Lower(email) == IF email = "A@x" THEN "a@x" ELSE email

\* bcrypt.hash / bcrypt.compare: one-way, compared by verification only
Hash(password) == [alg |-> "bcrypt", of |-> password]
Compare(password, hashed) == hashed.alg = "bcrypt" /\ hashed.of = password

\* ----------------------------------------------------------- responses
NoToken == [present |-> FALSE, userId |-> NoUser, signed |-> FALSE, expired |-> FALSE]

\* no aggregate in a response
NoStats ==
    [present |-> FALSE, totalUsers |-> 0, totalCompressions |-> 0,
     totalStorageUsed |-> 0, totalSpaceSaved |-> 0, totalSizeSaved |-> 0,
     userStats |-> [totalCompressions |-> 0, totalSizeSaved |-> 0]]

\* the fields of a response body that the handlers fill in; unlinked tells
\* whether the handler removed a file from uploadsDir
NoBody ==
    [fileName |-> NoFile, compressionRatio |-> <<>>, items |-> <<>>,
     total |-> 0, pages |-> 0, page |-> 0, limit |-> 0, sortBy |-> "",
     sortOrder |-> "", unlinked |-> FALSE, stats |-> NoStats, message |-> ""]

Response(op, status, error) ==
    [op |-> op, status |-> status, error |-> error, userId |-> NoUser,
     token |-> NoToken, recordId |-> NoRecord, dbOps |-> 0, body |-> NoBody]

\* a response of a handler that ran with req.user = u
Handled(op, status, error, u) == [Response(op, status, error) EXCEPT !.userId = u]

\* ------------------------------------------------------- Authorization
\* The Authorization header of a request: absent, "Bearer" with nothing after
\* the scheme, or "Bearer <token>".  A token is signed with JWT_SECRET or not,
\* and past its expiry or not; a signed one carries the id of a user it was
\* issued to.  Tried: no header, the bare scheme, a forged token naming the
\* first account, the newest account's token expired, and every account's
\* token in force.
NoHeader == [kind |-> "none", userId |-> NoUser, signed |-> FALSE, expired |-> FALSE]
BareHeader == [kind |-> "bare", userId |-> NoUser, signed |-> FALSE, expired |-> FALSE]
Bearer(u, s, e) == [kind |-> "bearer", userId |-> u, signed |-> s, expired |-> e]

Headers ==
    {NoHeader, BareHeader, Bearer(1, FALSE, FALSE)}
        \cup {Bearer(u, TRUE, TRUE) : u \in DOMAIN users \cap {Len(users)}}
        \cup {Bearer(u, TRUE, FALSE) : u \in DOMAIN users}

\* the headers that carry a token in force
Callers == {Bearer(u, TRUE, FALSE) : u \in DOMAIN users}

\* jwt.sign({ userId, ... }, JWT_SECRET, { expiresIn })
JwtSign(u) == [present |-> TRUE, userId |-> u, signed |-> TRUE, expired |-> FALSE]

\* authHeader && authHeader.split(' ')[1]
TokenOf(hdr) ==
    IF hdr.kind = "bearer"
    THEN [present |-> TRUE, userId |-> hdr.userId, signed |-> hdr.signed,
          expired |-> hdr.expired]
    ELSE NoToken

\* jwt.verify(token, JWT_SECRET, (err, user) => ...): the callback's arguments
JwtVerify(token) ==
    IF token.signed /\ ~token.expired
    THEN [err |-> FALSE, user |-> token.userId]
    ELSE [err |-> TRUE, user |-> NoUser]

AuthenticateToken_SameStatus(hdr) ==
    LET token == TokenOf(hdr) IN
    IF ~token.present
    THEN [next |-> FALSE, status |-> 401, error |-> "Access token required", user |-> NoUser]
    ELSE IF JwtVerify(token).err
    THEN [next |-> FALSE, status |-> 401, error |-> "Invalid or expired token", user |-> NoUser]
    ELSE [next |-> TRUE, status |-> 0, error |-> "", user |-> JwtVerify(token).user]

AuthenticateToken(hdr) ==
    LET token == TokenOf(hdr) IN
    IF ~token.present
    THEN [next |-> FALSE, status |-> 401, error |-> "Access token required", user |-> NoUser]
    ELSE IF JwtVerify(token).err
    THEN [next |-> FALSE, status |-> 403, error |-> "Invalid or expired token", user |-> NoUser]
    ELSE [next |-> TRUE, status |-> 0, error |-> "", user |-> JwtVerify(token).user]

OptionalAuth_Rejecting(hdr) ==
    LET token == TokenOf(hdr) IN
    IF token.present /\ JwtVerify(token).err
    THEN [nextCalls |-> 0, status |-> 403, user |-> NoUser]
    ELSE [nextCalls |-> 1, status |-> 0,
          user |-> IF token.present THEN JwtVerify(token).user ELSE NoUser]

\* next() is called once, after the verify callback has run; nothing is sent
OptionalAuth(hdr) ==
    LET token == TokenOf(hdr) IN
    [nextCalls |-> 1, status |-> 0,
     user |-> IF token.present /\ ~JwtVerify(token).err
              THEN JwtVerify(token).user ELSE NoUser]

\* ------------------------------------------------------------ inflight
Idle ==
    [op |-> "idle", pc |-> "", user |-> NoUser, username |-> "", email |-> "",
     password |-> "", originalSize |-> 0, compressedSize |-> 0,
     fileName |-> NoFile, recordId |-> NoRecord, dbOps |-> 0]

\* a request takes the first free slot
FreeSlot(s) ==
    /\ inflight[s] = Idle
    /\ \A t \in Slots : t < s => inflight[t] # Idle

\* ------------------------------------------------------ request options
\* A form field is absent or a text; a text is a sequence of characters.
Absent == [present |-> FALSE, text |-> <<>>]
Text(chars) == [present |-> TRUE, text |-> chars]

Digits == <<"0", "1", "2", "3", "4", "5", "6", "7", "8", "9">>
HexDigits == Digits \o <<"a", "b", "c", "d", "e", "f">>
WhiteSpace == {" ", "\t", "\n"}

\* the value of character c as a digit of `digits`, or -1
DigitValue(c, digits) ==
    IF \E i \in DOMAIN digits : digits[i] = c
    THEN (CHOOSE i \in DOMAIN digits : digits[i] = c) - 1
    ELSE -1

RECURSIVE TrimStart(_)
TrimStart(chars) ==
    IF chars # <<>> /\ Head(chars) \in WhiteSpace THEN TrimStart(Tail(chars)) ELSE chars

\* the longest prefix of chars made of digits of `digits`, read in that radix:
\* [n |-> how many characters were read, val |-> their value]
RECURSIVE ReadDigits(_, _, _)
ReadDigits(chars, digits, acc) ==
    IF chars = <<>> \/ DigitValue(Head(chars), digits) < 0
    THEN acc
    ELSE ReadDigits(Tail(chars), digits,
                    [n |-> acc.n + 1,
                     val |-> acc.val * Len(digits) + DigitValue(Head(chars), digits)])

NaN == [nan |-> TRUE, val |-> 0]
Number(v) == [nan |-> FALSE, val |-> v]

\* parseInt(string) without a radix: leading white space, a sign, "0x" for
\* radix 16, then the digits up to the first character that is none
ParseInt(chars) ==
    LET t == TrimStart(chars)
        negative == t # <<>> /\ Head(t) = "-"
        u == IF t # <<>> /\ Head(t) \in {"-", "+"} THEN Tail(t) ELSE t
        hex == Len(u) >= 2 /\ u[1] = "0" /\ u[2] \in {"x", "X"}
        read == IF hex THEN ReadDigits(Tail(Tail(u)), HexDigits, [n |-> 0, val |-> 0])
                ELSE ReadDigits(u, Digits, [n |-> 0, val |-> 0])
    IN IF read.n = 0 THEN NaN
       ELSE Number(IF negative THEN 0 - read.val ELSE read.val)

\* x || d for a number x: NaN and 0 are falsy
OrDefault(x, d) == IF x.nan \/ x.val = 0 THEN d ELSE x.val

Min(a, b) == IF a < b THEN a ELSE b
Max(a, b) == IF a > b THEN a ELSE b

DefaultQuality == 80
MinQuality == 10
MaxQuality == 100

\* const { quality = 80 } = req.body;
\* Math.min(100, Math.max(10, parseInt(quality) || 80))
QualityValue(quality) ==
    LET parsed == IF quality.present THEN ParseInt(quality.text)
                  ELSE Number(DefaultQuality)
    IN Min(MaxQuality, Max(MinQuality, OrDefault(parsed, DefaultQuality)))

ValidFormats == {<<"j","p","e","g">>, <<"j","p","g">>, <<"p","n","g">>,
                 <<"w","e","b","p">>, <<"a","v","i","f">>}

\* String.prototype.toLowerCase on the characters that are tried
LowerChar(c) ==
    CASE c = "J" -> "j" [] c = "P" -> "p" [] c = "G" -> "g" [] c = "E" -> "e"
      [] c = "N" -> "n" [] OTHER -> c
ToLowerCase(chars) == [i \in DOMAIN chars |-> LowerChar(chars[i])]

\* const { format = 'jpeg' } = req.body; validFormats.includes(...) ? ... : 'jpeg'
OutputFormat(format) ==
    LET f == IF format.present THEN format.text ELSE <<"j","p","e","g">>
    IN IF ToLowerCase(f) \in ValidFormats THEN ToLowerCase(f) ELSE <<"j","p","e","g">>

\* the extension of fileName
Extension(outputFormat) ==
    IF outputFormat = <<"j","p","g">> THEN <<"j","p","e","g">> ELSE outputFormat

\* the quality fields that are tried
Qualities ==
    {Absent, Text(<<>>), Text(<<"0">>), Text(<<"5">>), Text(<<"9">>),
     Text(<<"1","0">>), Text(<<"5","5">>), Text(<<"1","0","0">>),
     Text(<<"1","0","1">>), Text(<<"9","9","9">>), Text(<<"-","3">>),
     Text(<<"-","0">>), Text(<<"+","7">>), Text(<<" ","4","2">>),
     Text(<<"1","2","p","x">>), Text(<<"5",".","9">>), Text(<<"0","x","1","f">>),
     Text(<<"h","i">>), Text(<<"-">>)}

\* the format fields that are tried
Formats ==
    {Absent, Text(<<"j","p","e","g">>), Text(<<"j","p","g">>), Text(<<"J","P","G">>),
     Text(<<"P","n","g">>), Text(<<"w","e","b","p">>), Text(<<"a","v","i","f">>),
     Text(<<"g","i","f">>), Text(<<>>)}

\* no compress request has been read yet
NoOptions ==
    [quality |-> Absent, format |-> Absent, resolved |-> FALSE,
     qualityValue |-> 0, outputFormat |-> <<>>, extension |-> <<>>]

\* a compress request's form fields arrive
ReadOptions(quality, format) ==
    /\ options' = [NoOptions EXCEPT !.quality = quality, !.format = format]
    /\ UNCHANGED <<dbVars, inflight, resp, rlVars, hook, app>>

\* the handler resolves them (before the codec is called)
ResolveOptions ==
    /\ ~options.resolved
    /\ options' = [options EXCEPT !.resolved = TRUE,
                                  !.qualityValue = QualityValue(options.quality),
                                  !.outputFormat = OutputFormat(options.format),
                                  !.extension = Extension(OutputFormat(options.format))]
    /\ UNCHANGED <<dbVars, inflight, resp, rlVars, hook, app>>

\* ----------------------------------------------------------- client state
\* a state value of the hook: null, or a string (an error message, or the
\* fileName that stands for a response body kept as compressedData)
Null == [null |-> TRUE, value |-> ""]
Str(s) == [null |-> FALSE, value |-> s]

\* nothing removed yet
NoneRemoved == [files |-> {}, records |-> {}]

\* no Response object yet
NoReply ==
    [ok |-> FALSE, status |-> 0, json |-> FALSE, isNull |-> FALSE,
     success |-> FALSE, error |-> "", message |-> "", fileName |-> ""]

\* what fetch('/api/compress') can resolve to.  From the server: the success
\* body, 'No image file provided', the catch of the handler with sharp's
\* message, the rate limiter's message, the global error handler (also for
\* multer's errors).  From what stands between client and server: an error
\* page that is not JSON, a page that is not JSON with status 200, a JSON
\* null, a body with success false with and without an error text.
Replies ==
    { [NoReply EXCEPT !.ok = TRUE, !.status = 200, !.json = TRUE, !.success = TRUE,
                      !.fileName = "1.jpeg"],
      [NoReply EXCEPT !.status = 400, !.json = TRUE, !.error = "No image file provided"],
      [NoReply EXCEPT !.status = 500, !.json = TRUE, !.error = "Compression failed",
                      !.message = "Input buffer contains unsupported image format"],
      [NoReply EXCEPT !.status = 500, !.json = TRUE, !.error = "Compression failed"],
      [NoReply EXCEPT !.status = 429, !.json = TRUE,
                      !.error = "Too many compression requests from this IP, please try again later."],
      [NoReply EXCEPT !.status = 500, !.json = TRUE, !.error = "Internal server error",
                      !.message = "Something went wrong"],
      [NoReply EXCEPT !.status = 502],
      [NoReply EXCEPT !.ok = TRUE, !.status = 200],
      [NoReply EXCEPT !.ok = TRUE, !.status = 200, !.json = TRUE, !.isNull = TRUE],
      [NoReply EXCEPT !.ok = TRUE, !.status = 200, !.json = TRUE, !.error = "Busy"],
      [NoReply EXCEPT !.ok = TRUE, !.status = 200, !.json = TRUE] }

\* the message of the error a rejected fetch carries
NetworkErrors == {"Failed to fetch"}

\* the files the user can pick
ImageFiles == {"a.jpg", "b.png", "c.gif"}

\* useState(null), useState(false), useState(null); no call in flight, no
\* timer pending.  stale: a timer of an earlier call is still pending.
HookInit ==
    [compressedData |-> Null, loading |-> FALSE, error |-> Null,
     pc |-> "idle", timer |-> "off", stale |-> FALSE, response |-> NoReply]

\* useState(null) and useState({ quality: 80, format: 'jpeg', ... }) of App
AppInit == [selectedFile |-> "", format |-> "jpeg"]

\* ---------------------------------------------------------------- Init
\* an account created in the database before the server starts; no route
\* assigns the admin role
SeededAdmin ==
    [username |-> "root", email |-> "root@x", password |-> Hash("secret1"),
     role |-> "admin", totalCompressions |-> 0, totalSizeSaved |-> 0]

\* the account POST /api/auth/register creates for alice
Alice ==
    [username |-> "alice", email |-> "a@x", password |-> Hash("hunter22"),
     role |-> "user", totalCompressions |-> 0, totalSizeSaved |-> 0]

InitRest ==
    /\ records = <<>>
    /\ files = {}
    /\ nextFile = 0
    /\ nextRecord = 0
    /\ inflight = [s \in Slots |-> Idle]
    /\ removed = NoneRemoved
    /\ ever = [u \in UserIds |-> [count |-> 0, saved |-> 0]]
    /\ resp = Response("none", 0, "")
    /\ hits = [c \in Clients |-> 0]
    /\ admitted = [c \in Clients |-> 0]
    /\ verdict = [status |-> 0, error |-> ""]
    /\ options = NoOptions
    /\ hook = HookInit
    /\ app = AppInit

\* the server starts on an empty database, or on one holding the admin
InitAccounts ==
    /\ users \in {<<>>, <<SeededAdmin>>}
    /\ limiter = "auth"
    /\ InitRest

\* the database once alice has registered beside the admin (SpecAccounts
\* reaches it), nothing compressed yet
Init ==
    /\ users = <<SeededAdmin, Alice>>
    /\ limiter = "compression"
    /\ InitRest

\* the database of Init once alice and the admin have each compressed one
\* image (a state Spec reaches)
InitGuarded ==
    /\ users = <<[SeededAdmin EXCEPT !.totalCompressions = 1, !.totalSizeSaved = -1],
                 [Alice EXCEPT !.totalCompressions = 1, !.totalSizeSaved = 8]>>
    /\ records = (1 :> [userId |-> 2, compressedFilename |-> 1,
                        originalSize |-> 12, compressedSize |-> 4,
                        compressionRatio |-> 6667])
               @@ (2 :> [userId |-> 1, compressedFilename |-> 2,
                         originalSize |-> 12, compressedSize |-> 13,
                         compressionRatio |-> -833])
    /\ files = {1, 2}
    /\ nextFile = 2
    /\ nextRecord = 2
    /\ inflight = [s \in Slots |-> Idle]
    /\ removed = NoneRemoved
    /\ ever = [u \in UserIds |-> IF u = 1 THEN [count |-> 1, saved |-> -1]
                                 ELSE IF u = 2 THEN [count |-> 1, saved |-> 8]
                                 ELSE [count |-> 0, saved |-> 0]]
    /\ resp = Response("none", 0, "")
    /\ limiter = "compression"
    /\ hits = [c \in Clients |-> 0]
    /\ admitted = [c \in Clients |-> 0]
    /\ verdict = [status |-> 0, error |-> ""]
    /\ options = NoOptions
    /\ hook = HookInit
    /\ app = AppInit

\* one rateLimit instance, its store empty
InitRL ==
    /\ users = <<>>
    /\ limiter \in Limiters
    /\ InitRest

\* ------------------------------------------------- POST /api/auth/register
EmailTaken(email) == \E u \in DOMAIN users : users[u].email = Lower(email)
UsernameTaken(username) == \E u \in DOMAIN users : users[u].username = username

ExistingUser_EmailOnly(username, email) == EmailTaken(email)

\* User.findOne({ $or: [{ email }, { username }] })
ExistingUser(username, email) == EmailTaken(email) \/ UsernameTaken(username)

RegisterValidation_NoLength(username, email, password) ==
    IF username = "" \/ email = "" \/ password = ""
    THEN "All fields are required"
    ELSE ""

\* the handler's checks on req.body: the error sent, "" when they pass
RegisterValidation(username, email, password) ==
    IF username = "" \/ email = "" \/ password = ""
    THEN "All fields are required"
    ELSE IF Len(password) < MinPasswordLength
    THEN "Password must be at least 6 characters long"
    ELSE ""

\* validation and the findOne: up to the await of bcrypt.hash
Register(s, username, email, password) ==
    /\ FreeSlot(s)
    /\ LET invalid == RegisterValidation(username, email, password) IN
       \/ /\ invalid # ""
          /\ resp' = Response("register", 400, invalid)
          /\ UNCHANGED inflight
       \/ /\ invalid = ""
          /\ ExistingUser(username, email)
          /\ resp' = Response("register", 400, "User already exists with this email or username")
          /\ UNCHANGED inflight
       \/ /\ invalid = ""
          /\ ~ExistingUser(username, email)
          /\ Len(users) + Cardinality({t \in Slots : inflight[t].op = "register"}) < MaxUsers
          /\ inflight' = [inflight EXCEPT ![s] =
                 [Idle EXCEPT !.op = "register", !.pc = "save", !.username = username,
                              !.email = email, !.password = password]]
          /\ UNCHANGED resp
    /\ UNCHANGED <<dbVars, rlVars, auxVars>>

SaveRejected_NoIndex(u, username, email) ==
    Len(username) < MinUsernameLength

\* user.save(): the schema's validators and the unique indexes decide
SaveRejected(u, username, email) ==
    \/ Len(username) < MinUsernameLength
    \/ \E v \in DOMAIN users \ {u} :
           users[v].username = username \/ users[v].email = Lower(email)

\* error.message of a rejected save: the validators run before the insert
SaveMessage(username) ==
    IF Len(username) < MinUsernameLength THEN "User validation failed"
    ELSE "E11000 duplicate key error"

\* bcrypt.hash, user.save(), jwt.sign and the 201
RegisterSave(s) ==
    /\ inflight[s].op = "register" /\ inflight[s].pc = "save"
    /\ LET r == inflight[s]
           id == Len(users) + 1
       IN
       \/ /\ SaveRejected(id, r.username, r.email)
          /\ resp' = [Response("register", 500, "Registration failed") EXCEPT
                          !.body.message = SaveMessage(r.username)]
          /\ UNCHANGED users
       \/ /\ ~SaveRejected(id, r.username, r.email)
          /\ users' = Append(users,
                 [username |-> r.username, email |-> Lower(r.email),
                  password |-> Hash(r.password), role |-> "user",
                  totalCompressions |-> 0, totalSizeSaved |-> 0])
          /\ resp' = [Handled("register", 201, "", id) EXCEPT !.token = JwtSign(id)]
    /\ inflight' = [inflight EXCEPT ![s] = Idle]
    /\ UNCHANGED <<records, files, nextFile, nextRecord, ever, removed, rlVars, auxVars>>

\* ---------------------------------------------------- POST /api/auth/login
InvalidCredentials == Response("login", 401, "Invalid credentials")

\* User.findOne({ email })
FindByEmail(email) == {u \in DOMAIN users : users[u].email = Lower(email)}

LoginOutcome_Enumerating(email, password) ==
    IF email = "" \/ password = ""
    THEN Response("login", 400, "Email and password are required")
    ELSE IF FindByEmail(email) = {}
    THEN Response("login", 401, "User not found")
    ELSE LET u == CHOOSE u \in FindByEmail(email) : TRUE IN
         IF ~Compare(password, users[u].password)
         THEN InvalidCredentials
         ELSE [Handled("login", 200, "", u) EXCEPT !.token = JwtSign(u)]

LoginOutcome(email, password) ==
    IF email = "" \/ password = ""
    THEN Response("login", 400, "Email and password are required")
    ELSE IF FindByEmail(email) = {}
    THEN InvalidCredentials
    ELSE LET u == CHOOSE u \in FindByEmail(email) : TRUE IN
         IF ~Compare(password, users[u].password)
         THEN InvalidCredentials
         ELSE [Handled("login", 200, "", u) EXCEPT !.token = JwtSign(u)]

Login(email, password) ==
    /\ resp' = LoginOutcome(email, password)
    /\ UNCHANGED <<dbVars, inflight, rlVars, auxVars>>

\* ------------------------------------------------------ GET /api/auth/me
\* the response of a route behind authenticateToken that the middleware
\* answers itself
Rejected(op, auth) == Response(op, auth.status, auth.error)

Me(hdr) ==
    /\ LET auth == AuthenticateToken(hdr) IN
       resp' = IF ~auth.next THEN Rejected("me", auth)
               ELSE IF auth.user \notin DOMAIN users
               THEN Handled("me", 404, "User not found", auth.user)
               ELSE Handled("me", 200, "", auth.user)
    /\ UNCHANGED <<dbVars, inflight, rlVars, auxVars>>

\* ------------------------------------------------- PUT /api/auth/profile
\* User.findOne({ username, _id: { $ne: user._id } })
UsernameTakenByOther(u, username) ==
    \E v \in DOMAIN users \ {u} : users[v].username = username

\* authenticateToken, findById and findOne: up to the await of user.save()
Profile(s, hdr, username) ==
    /\ FreeSlot(s)
    /\ LET auth == AuthenticateToken(hdr) IN
       \/ /\ ~auth.next
          /\ resp' = Rejected("profile", auth)
          /\ UNCHANGED inflight
       \/ /\ auth.next
          /\ auth.user \notin DOMAIN users
          /\ resp' = Handled("profile", 404, "User not found", auth.user)
          /\ UNCHANGED inflight
       \/ /\ auth.next
          /\ auth.user \in DOMAIN users
          /\ username # ""
          /\ UsernameTakenByOther(auth.user, username)
          /\ resp' = Handled("profile", 400, "Username already taken", auth.user)
          /\ UNCHANGED inflight
       \/ /\ auth.next
          /\ auth.user \in DOMAIN users
          /\ username # "" => ~UsernameTakenByOther(auth.user, username)
          /\ inflight' = [inflight EXCEPT ![s] =
                 [Idle EXCEPT !.op = "profile", !.pc = "save", !.user = auth.user,
                              !.username = username]]
          /\ UNCHANGED resp
    /\ UNCHANGED <<dbVars, rlVars, auxVars>>

\* user.save() writes the modified path (username) alone
ProfileSave(s) ==
    /\ inflight[s].op = "profile" /\ inflight[s].pc = "save"
    /\ LET r == inflight[s] IN
       \/ /\ r.username # ""
          /\ r.username # users[r.user].username
          /\ SaveRejected(r.user, r.username, users[r.user].email)
          /\ resp' = [Handled("profile", 500, "Failed to update profile", r.user) EXCEPT
                          !.body.message = SaveMessage(r.username)]
          /\ UNCHANGED users
       \/ /\ r.username # ""
          /\ r.username # users[r.user].username
          /\ ~SaveRejected(r.user, r.username, users[r.user].email)
          /\ users' = [users EXCEPT ![r.user].username = r.username]
          /\ resp' = Handled("profile", 200, "", r.user)
       \/ /\ r.username = "" \/ r.username = users[r.user].username
          /\ resp' = Handled("profile", 200, "", r.user)
          /\ UNCHANGED users
    /\ inflight' = [inflight EXCEPT ![s] = Idle]
    /\ UNCHANGED <<records, files, nextFile, nextRecord, ever, removed, rlVars, auxVars>>

\* ------------------------------------------------------ POST /api/compress
Abs(n) == IF n < 0 THEN 0 - n ELSE n

\* the decimal digits of a natural number
RECURSIVE NatChars(_)
NatChars(n) ==
    IF n < 10 THEN <<Digits[n + 1]>> ELSE NatChars(n \div 10) \o <<Digits[(n % 10) + 1]>>

\* (num / den).toFixed(2): the hundredth nearest to the magnitude, the larger
\* one of two equally near, behind the sign
ToFixed2_Truncating(num, den) ==
    LET n == (Abs(num) * 100) \div den
    IN (IF num < 0 THEN <<"-">> ELSE <<>>)
           \o NatChars(n \div 100) \o <<".">> \o <<Digits[((n \div 10) % 10) + 1]>>
           \o <<Digits[(n % 10) + 1]>>

ToFixed2(num, den) ==
    LET n == (2 * Abs(num) * 100 + den) \div (2 * den)
    IN (IF num < 0 THEN <<"-">> ELSE <<>>)
           \o NatChars(n \div 100) \o <<".">> \o <<Digits[((n \div 10) % 10) + 1]>>
           \o <<Digits[(n % 10) + 1]>>

\* parseFloat of a text with at most two decimals, in hundredths
ParseFloat(chars) ==
    LET negative == chars # <<>> /\ Head(chars) = "-"
        u == IF negative THEN Tail(chars) ELSE chars
        whole == ReadDigits(u, Digits, [n |-> 0, val |-> 0])
        rest == SubSeq(u, whole.n + 1, Len(u))
        frac == IF rest # <<>> /\ Head(rest) = "."
                THEN ReadDigits(SubSeq(rest, 2, Min(Len(rest), 3)), Digits,
                                [n |-> 0, val |-> 0])
                ELSE [n |-> 0, val |-> 0]
        hundredths == whole.val * 100
                          + (IF frac.n = 1 THEN frac.val * 10 ELSE frac.val)
    IN IF whole.n = 0 /\ frac.n = 0 THEN NaN
       ELSE Number(IF negative THEN 0 - hundredths ELSE hundredths)

\* ((originalSize - compressedSize) / originalSize * 100).toFixed(2)
CompressionRatio(originalSize, compressedSize) ==
    ToFixed2((originalSize - compressedSize) * 100, originalSize)

\* if (req.user): where the handler goes once the artifact is written
AfterWrite_Always(user) == "save"

AfterWrite(user) == IF user # NoUser THEN "save" ELSE "respond"

\* optionalAuth, upload.single('image') and the handler up to its first await
Compress(s, hdr, upload, size) ==
    /\ FreeSlot(s)
    /\ LET auth == OptionalAuth(hdr) IN
       \/ /\ auth.nextCalls > 0
          /\ upload \in {"notImage", "tooLarge"}
          /\ resp' = Response("compress", 500, "Internal server error")
          /\ UNCHANGED <<inflight, nextFile>>
       \/ /\ auth.nextCalls > 0
          /\ upload = "none"
          /\ resp' = Response("compress", 400, "No image file provided")
          /\ UNCHANGED <<inflight, nextFile>>
       \/ /\ auth.nextCalls > 0
          /\ upload = "image"
          /\ nextFile < MaxCompress
          /\ nextFile' = nextFile + 1
          /\ inflight' = [inflight EXCEPT ![s] =
                 [Idle EXCEPT !.op = "compress", !.pc = "encode", !.user = auth.user,
                              !.originalSize = size, !.fileName = nextFile + 1]]
          /\ UNCHANGED resp
    /\ UNCHANGED <<users, records, files, nextRecord, ever, removed, rlVars, auxVars>>

\* the catch of the handler: error.message tells what threw
CompressionFailed(message) ==
    [Response("compress", 500, "Compression failed") EXCEPT !.body.message = message]

CompressEncode_WritesFirst(s) ==
    /\ inflight[s].op = "compress" /\ inflight[s].pc = "encode"
    /\ \/ /\ \E c \in CompressedSizes :
                inflight' = [inflight EXCEPT ![s].pc = "write", ![s].compressedSize = c]
          /\ UNCHANGED <<resp, files>>
       \/ /\ inflight' = [inflight EXCEPT ![s] = Idle]
          /\ files' = files \cup {inflight[s].fileName}
          /\ resp' = CompressionFailed("Input buffer contains unsupported image format")
    /\ UNCHANGED <<users, records, nextFile, nextRecord, ever, removed, rlVars, auxVars>>

\* metadata(), resize() and the encoder's toBuffer(): the codec answers
CompressEncode(s) ==
    /\ inflight[s].op = "compress" /\ inflight[s].pc = "encode"
    /\ \/ /\ \E c \in CompressedSizes :
                inflight' = [inflight EXCEPT ![s].pc = "write", ![s].compressedSize = c]
          /\ UNCHANGED resp
       \/ /\ inflight' = [inflight EXCEPT ![s] = Idle]
          /\ resp' = CompressionFailed("Input buffer contains unsupported image format")
    /\ UNCHANGED <<dbVars, rlVars, auxVars>>

\* sharp(compressedBuffer).toFile(outputPath); a failed write may leave a file
CompressWrite(s) ==
    /\ inflight[s].op = "compress" /\ inflight[s].pc = "write"
    /\ \/ /\ files' = files \cup {inflight[s].fileName}
          /\ inflight' = [inflight EXCEPT ![s].pc = AfterWrite(inflight[s].user)]
          /\ UNCHANGED resp
       \/ /\ files' \in {files, files \cup {inflight[s].fileName}}
          /\ inflight' = [inflight EXCEPT ![s] = Idle]
          /\ resp' = CompressionFailed("unable to open for write")
    /\ UNCHANGED <<users, records, nextFile, nextRecord, ever, removed, rlVars, auxVars>>

\* compressionRecord.save()
CompressSave(s) ==
    /\ inflight[s].op = "compress" /\ inflight[s].pc = "save"
    /\ LET r == inflight[s]
           id == nextRecord + 1
           savings == r.originalSize - r.compressedSize
       IN
       /\ nextRecord' = id
       /\ records' = (id :> [userId |-> r.user, compressedFilename |-> r.fileName,
                             originalSize |-> r.originalSize,
                             compressedSize |-> r.compressedSize,
                             compressionRatio |->
                                 ParseFloat(CompressionRatio(r.originalSize,
                                                             r.compressedSize)).val])
                      @@ records
       /\ ever' = IF r.user \in DOMAIN ever
                  THEN [ever EXCEPT ![r.user] = [count |-> @.count + 1,
                                                 saved |-> @.saved + savings]]
                  ELSE ever
       /\ inflight' = [inflight EXCEPT ![s].pc = "inc", ![s].recordId = id,
                                       ![s].dbOps = @ + 1]
    /\ UNCHANGED <<users, files, nextFile, removed, resp, rlVars, auxVars>>

CompressInc_NotAwaited(s) ==
    /\ inflight[s].op = "compress" /\ inflight[s].pc = "inc"
    /\ inflight' = [inflight EXCEPT ![s].pc = "respond", ![s].dbOps = @ + 1]
    /\ UNCHANGED <<users, records, files, nextFile, nextRecord, ever, removed, resp,
                   rlVars, auxVars>>

IncStats_Set(u, savings) ==
    [users EXCEPT ![u].totalCompressions = 1,
                  ![u].totalSizeSaved = savings]

\* User.findByIdAndUpdate(userId, { $inc: { ... } }): one atomic update
IncStats(u, savings) ==
    [users EXCEPT ![u].totalCompressions = @ + 1,
                  ![u].totalSizeSaved = @ + savings]

CompressInc(s) ==
    /\ inflight[s].op = "compress" /\ inflight[s].pc = "inc"
    /\ LET r == inflight[s] IN
       /\ users' = IF r.user \in DOMAIN users
                   THEN IncStats(r.user, r.originalSize - r.compressedSize)
                   ELSE users
       /\ inflight' = [inflight EXCEPT ![s].pc = "respond", ![s].dbOps = @ + 1]
    /\ UNCHANGED <<records, files, nextFile, nextRecord, ever, removed, resp, rlVars, auxVars>>

\* res.json({ success: true, ..., recordId: compressionRecord?._id })
CompressRespond(s) ==
    /\ inflight[s].op = "compress" /\ inflight[s].pc = "respond"
    /\ resp' = [Handled("compress", 200, "", inflight[s].user) EXCEPT
                    !.recordId = inflight[s].recordId, !.dbOps = inflight[s].dbOps,
                    !.body.fileName = inflight[s].fileName,
                    !.body.compressionRatio =
                        CompressionRatio(inflight[s].originalSize,
                                         inflight[s].compressedSize)]
    /\ inflight' = [inflight EXCEPT ![s] = Idle]
    /\ UNCHANGED <<dbVars, rlVars, auxVars>>

\* ------------------------------------------- GET /api/compression/history
ValidSortFields == {"createdAt", "originalSize", "compressedSize", "compressionRatio"}

DefaultPage == 1
DefaultLimit == 10

\* a query parameter that names a field or a direction: absent, or a string
NoParam == [present |-> FALSE, name |-> ""]
Param(name) == [present |-> TRUE, name |-> name]

\* parseInt(req.query.page): parseInt(undefined) is NaN
ParseParam(field) == IF field.present THEN ParseInt(field.text) ELSE NaN

RecordsOf_Everyone(u) == DOMAIN records

\* CompressionHistory.find / countDocuments ({ userId })
RecordsOf(u) == {r \in DOMAIN records : records[r].userId = u}

\* the value .sort({ [sortBy]: sortOrder }) compares; createdAt grows with _id
SortKey(r, sortBy) ==
    CASE sortBy = "originalSize" -> records[r].originalSize
      [] sortBy = "compressedSize" -> records[r].compressedSize
      [] sortBy = "compressionRatio" -> records[r].compressionRatio
      [] OTHER -> r

\* the orders .sort() may return the records of u in: records with equal
\* keys come in any order
SortedOrders(u, sortBy, sortOrder) ==
    UNION {{o \in [1..Cardinality(S) -> S] :
               /\ \A i, j \in DOMAIN o : i # j => o[i] # o[j]
               /\ \A i, j \in DOMAIN o :
                      i < j => sortOrder * SortKey(o[i], sortBy)
                                   <= sortOrder * SortKey(o[j], sortBy)}
           : S \in {RecordsOf(u)}}

\* .skip(skip).limit(limit)
Page(order, skip, limit) == SubSeq(order, skip + 1, Min(Len(order), skip + limit))

\* Math.ceil(total / limit)
Pages(total, limit) == (total + limit - 1) \div limit

\* page and limit are parsed once, before the checks
History(hdr, q) ==
    /\ \E page \in {OrDefault(ParseParam(q.page), DefaultPage)},
          limit \in {OrDefault(ParseParam(q.limit), DefaultLimit)},
          auth \in {AuthenticateToken(hdr)} :
       LET sortBy == IF q.sortBy.present /\ q.sortBy.name # ""
                     THEN q.sortBy.name ELSE "createdAt"
           sortOrder == IF q.sortOrder = Param("asc") THEN 1 ELSE -1
           skip == (page - 1) * limit
           total == Cardinality(RecordsOf(auth.user))
       IN
       \/ /\ ~auth.next
          /\ resp' = Rejected("history", auth)
       \/ /\ auth.next
          /\ sortBy \notin ValidSortFields
          /\ resp' = Handled("history", 400, "Invalid sortBy field", auth.user)
       \/ /\ auth.next
          /\ sortBy \in ValidSortFields
          /\ page < 1 \/ limit < 1
          /\ resp' = Handled("history", 400, "Page and limit must be positive integers",
                             auth.user)
       \/ /\ auth.next
          /\ sortBy \in ValidSortFields
          /\ page >= 1 /\ limit >= 1
          /\ \E order \in SortedOrders(auth.user, sortBy, sortOrder) :
                 resp' = [Handled("history", 200, "", auth.user) EXCEPT
                              !.body.items = Page(order, skip, limit),
                              !.body.total = total,
                              !.body.pages = Pages(total, limit),
                              !.body.page = page,
                              !.body.limit = limit,
                              !.body.sortBy = sortBy,
                              !.body.sortOrder = IF sortOrder = 1 THEN "asc" ELSE "desc"]
    /\ UNCHANGED <<dbVars, inflight, rlVars, auxVars>>

\* --------------------------------------------- GET /api/compression/stats
RECURSIVE SumOver(_, _)
\* $group / $sum over the documents of S
SumOver(S, field) ==
    IF S = {} THEN 0
    ELSE LET r == CHOOSE x \in S : TRUE
         IN (IF field = "compressedSize" THEN records[r].compressedSize
             ELSE records[r].originalSize - records[r].compressedSize)
                + SumOver(S \ {r}, field)

\* the $match / $group aggregate over the caller's records, with
\* totalSizeSaved computed from it, and user.compressionStats next to it
UserStats(u) ==
    [NoStats EXCEPT !.present = TRUE,
                    !.totalCompressions = Cardinality(RecordsOf(u)),
                    !.totalSizeSaved = SumOver(RecordsOf(u), "savings"),
                    !.userStats = [totalCompressions |-> users[u].totalCompressions,
                                   totalSizeSaved |-> users[u].totalSizeSaved]]

Stats(hdr) ==
    /\ LET auth == AuthenticateToken(hdr) IN
       resp' = IF ~auth.next THEN Rejected("stats", auth)
               ELSE IF auth.user \notin DOMAIN users
               THEN Handled("stats", 404, "User not found", auth.user)
               ELSE [Handled("stats", 200, "", auth.user) EXCEPT
                        !.body.stats = UserStats(auth.user)]
    /\ UNCHANGED <<dbVars, inflight, rlVars, auxVars>>

\* ------------------------------ DELETE /api/compression/history/:recordId
\* a :recordId that is no ObjectId: the query's cast throws
MalformedId == -1

FindOwned_AnyOwner(u, recordId) ==
    IF recordId \in DOMAIN records THEN recordId ELSE NoRecord

\* CompressionHistory.findOne({ _id: recordId, userId })
FindOwned(u, recordId) ==
    IF recordId \in DOMAIN records /\ records[recordId].userId = u
    THEN recordId ELSE NoRecord

Without_Nothing(f, x) == f

\* findByIdAndDelete / findOneAndDelete: the collection without document x
Without(f, x) == [y \in DOMAIN f \ {x} |-> f[y]]

ExistsSync_Recorded(filename) ==
    \E r \in DOMAIN records : records[r].compressedFilename = filename

\* fs.existsSync(path.join(uploadsDir, filename))
ExistsSync(filename) == filename \in files

DeleteRecord_Reconciling(hdr, recordId) ==
    /\ LET auth == AuthenticateToken(hdr)
           found == FindOwned(auth.user, recordId)
       IN
       \/ /\ ~auth.next
          /\ resp' = Rejected("delete", auth)
          /\ UNCHANGED <<records, files, removed>>
       \/ /\ auth.next
          /\ recordId = MalformedId
          /\ resp' = Handled("delete", 500, "Failed to delete record", auth.user)
          /\ UNCHANGED <<records, files, removed>>
       \/ /\ auth.next
          /\ recordId # MalformedId
          /\ found = NoRecord
          /\ resp' = [Handled("delete", 404, "Record not found", auth.user) EXCEPT
                          !.recordId = recordId]
          /\ UNCHANGED <<records, files, removed>>
       \/ /\ auth.next
          /\ recordId # MalformedId
          /\ found # NoRecord
          /\ files' = IF ExistsSync(records[found].compressedFilename)
                       THEN files \ {records[found].compressedFilename}
                       ELSE files
          /\ records' = Without(records, recordId)
          /\ removed' = [files |-> removed.files \cup
                                       ({records[found].compressedFilename} \cap files),
                         records |-> removed.records \cup {recordId}]
          /\ resp' = [Handled("delete", 200, "", auth.user) EXCEPT
                          !.recordId = recordId,
                          !.body.unlinked =
                              ExistsSync(records[found].compressedFilename)]
    /\ users' = IF resp'.status = 200
                THEN [users EXCEPT ![resp'.userId].totalCompressions = @ - 1]
                ELSE users
    /\ UNCHANGED <<nextFile, nextRecord, ever, inflight, rlVars, auxVars>>

DeleteRecord(hdr, recordId) ==
    /\ LET auth == AuthenticateToken(hdr)
           found == FindOwned(auth.user, recordId)
       IN
       \/ /\ ~auth.next
          /\ resp' = Rejected("delete", auth)
          /\ UNCHANGED <<records, files, removed>>
       \/ /\ auth.next
          /\ recordId = MalformedId
          /\ resp' = Handled("delete", 500, "Failed to delete record", auth.user)
          /\ UNCHANGED <<records, files, removed>>
       \/ /\ auth.next
          /\ recordId # MalformedId
          /\ found = NoRecord
          /\ resp' = [Handled("delete", 404, "Record not found", auth.user) EXCEPT
                          !.recordId = recordId]
          /\ UNCHANGED <<records, files, removed>>
       \/ /\ auth.next
          /\ recordId # MalformedId
          /\ found # NoRecord
          /\ files' = IF ExistsSync(records[found].compressedFilename)
                       THEN files \ {records[found].compressedFilename}
                       ELSE files
          /\ records' = Without(records, recordId)
          /\ removed' = [files |-> removed.files \cup
                                       ({records[found].compressedFilename} \cap files),
                         records |-> removed.records \cup {recordId}]
          /\ resp' = [Handled("delete", 200, "", auth.user) EXCEPT
                          !.recordId = recordId,
                          !.body.unlinked =
                              ExistsSync(records[found].compressedFilename)]
    /\ UNCHANGED <<users, nextFile, nextRecord, ever, inflight, rlVars, auxVars>>

\* ------------------------------------------------- GET /api/admin/stats
\* countDocuments() of both collections and the $group aggregate
Aggregate ==
    [NoStats EXCEPT !.present = TRUE,
                    !.totalUsers = Len(users),
                    !.totalCompressions = Cardinality(DOMAIN records),
                    !.totalStorageUsed = SumOver(DOMAIN records, "compressedSize"),
                    !.totalSpaceSaved = SumOver(DOMAIN records, "savings")]

IsAdmin_Always(user) == TRUE

\* user.role !== 'admin', on the document read from the database
IsAdmin(user) == user.role = "admin"

AdminStats(hdr) ==
    /\ LET auth == AuthenticateToken(hdr) IN
       resp' = IF ~auth.next THEN Rejected("admin", auth)
               ELSE IF auth.user \notin DOMAIN users
               THEN Handled("admin", 500, "Failed to get admin statistics", auth.user)
               ELSE IF ~IsAdmin(users[auth.user])
               THEN Handled("admin", 403, "Admin access required", auth.user)
               ELSE [Handled("admin", 200, "", auth.user) EXCEPT !.body.stats = Aggregate]
    /\ UNCHANGED <<dbVars, inflight, rlVars, auxVars>>

\* --------------------------------------- DELETE /api/cleanup/:filename
\* CompressionHistory.findOneAndDelete({ compressedFilename: filename, userId })
OwnedByName(u, filename) ==
    {r \in DOMAIN records :
        records[r].compressedFilename = filename /\ records[r].userId = u}

Cleanup_DiskFirst(hdr, filename) ==
    /\ LET auth == AuthenticateToken(hdr)
           owned == OwnedByName(auth.user, filename)
       IN
       \/ /\ ~auth.next
          /\ resp' = Rejected("cleanup", auth)
          /\ UNCHANGED <<records, files, removed>>
       \/ /\ auth.next
          /\ ExistsSync(filename)
          /\ records' = IF owned = {} THEN records
                        ELSE Without(records, CHOOSE r \in owned : TRUE)
          /\ removed' = [files |-> removed.files \cup {filename},
                         records |-> removed.records \cup owned]
          /\ files' = files \ {filename}
          /\ resp' = [Handled("cleanup", 200, "", auth.user) EXCEPT
                          !.recordId = IF owned = {} THEN NoRecord
                                       ELSE CHOOSE r \in owned : TRUE,
                          !.body.fileName = filename,
                          !.body.unlinked = TRUE]
       \/ /\ auth.next
          /\ ~ExistsSync(filename)
          /\ UNCHANGED <<records, files, removed>>
          /\ resp' = [Handled("cleanup", 404, "File not found", auth.user) EXCEPT
                          !.body.fileName = filename]
    /\ UNCHANGED <<users, nextFile, nextRecord, ever, inflight, rlVars, auxVars>>

Cleanup(hdr, filename) ==
    /\ LET auth == AuthenticateToken(hdr)
           owned == OwnedByName(auth.user, filename)
       IN
       \/ /\ ~auth.next
          /\ resp' = Rejected("cleanup", auth)
          /\ UNCHANGED <<records, files, removed>>
       \/ /\ auth.next
          /\ records' = IF owned = {} THEN records
                        ELSE Without(records, CHOOSE r \in owned : TRUE)
          /\ removed' = [files |-> removed.files \cup ({filename} \cap files),
                         records |-> removed.records \cup owned]
          /\ \/ /\ ExistsSync(filename)
                /\ files' = files \ {filename}
                /\ resp' = [Handled("cleanup", 200, "", auth.user) EXCEPT
                                !.recordId = IF owned = {} THEN NoRecord
                                             ELSE CHOOSE r \in owned : TRUE,
                                !.body.fileName = filename,
                                !.body.unlinked = TRUE]
             \/ /\ ~ExistsSync(filename)
                /\ UNCHANGED files
                /\ resp' = [Handled("cleanup", 404, "File not found", auth.user) EXCEPT
                                !.recordId = IF owned = {} THEN NoRecord
                                             ELSE CHOOSE r \in owned : TRUE,
                                !.body.fileName = filename]
    /\ UNCHANGED <<users, nextFile, nextRecord, ever, inflight, rlVars, auxVars>>

\* ------------------------------------- compressionLimiter / authLimiter
\* max of the limiter (RATE_LIMIT_MAX_REQUESTS unset)
LimitOf_Shared(l) == CompressionMax

LimitOf(l) == IF l = "auth" THEN AuthMax ELSE CompressionMax

\* message of the limiter
MessageOf(l) ==
    IF l = "auth"
    THEN "Too many authentication attempts from this IP, please try again later."
    ELSE "Too many compression requests from this IP, please try again later."

\* a request from client address c reaches the limiter: the hit is counted,
\* and the request is passed on unless the count is now above max
LimiterRequest(c) ==
    /\ hits[c] < LimitOf(limiter) + MaxOver
    /\ hits' = [hits EXCEPT ![c] = @ + 1]
    /\ \/ /\ hits[c] + 1 <= LimitOf(limiter)
          /\ admitted' = [admitted EXCEPT ![c] = @ + 1]
          /\ verdict' = [status |-> 0, error |-> ""]
       \/ /\ hits[c] + 1 > LimitOf(limiter)
          /\ verdict' = [status |-> 429, error |-> MessageOf(limiter)]
          /\ UNCHANGED admitted
    /\ UNCHANGED <<dbVars, inflight, resp, limiter, auxVars>>

\* windowMs has elapsed: the store is reset
WindowElapsed ==
    /\ hits' = [c \in Clients |-> 0]
    /\ admitted' = [c \in Clients |-> 0]
    /\ UNCHANGED <<dbVars, inflight, resp, limiter, verdict, auxVars>>

\* ---------------------------------------------------------------- Next
\* the query strings of GET /api/compression/history that are tried
HistoryQueries ==
    {[page |-> Text(<<"1">>), limit |-> Text(<<"1">>), sortBy |-> Param("createdAt"),
      sortOrder |-> NoParam],
     [page |-> Text(<<"-", "1">>), limit |-> Text(<<"1">>),
      sortBy |-> Param("originalSize"), sortOrder |-> NoParam],
     [page |-> Text(<<"1">>), limit |-> Text(<<"1">>), sortBy |-> Param("password"),
      sortOrder |-> NoParam]}
\* the usernames PUT /api/auth/profile is sent in SpecGuarded
NewNames == {"", "bob"}
RecordIdInputs == RecordIds \cup {MalformedId}

\* registration, login and the profile, from an empty database
NextAccounts ==
    \/ \E s \in Slots, un \in Usernames, em \in Emails, pw \in Passwords :
           Register(s, un, em, pw)
    \/ \E s \in Slots : RegisterSave(s)
    \/ \E em \in Emails, pw \in Passwords : Login(em, pw)
    \/ \E hdr \in Headers : Me(hdr)
    \/ \E s \in Slots, hdr \in Headers, un \in Usernames : Profile(s, hdr, un)
    \/ \E s \in Slots : ProfileSave(s)

\* the compression pipeline and the two routes that delete what it wrote,
\* these called with a token in force (SpecGuarded has the other headers)
Next ==
    \/ \E s \in Slots, hdr \in Headers, up \in UploadKinds, size \in OriginalSizes :
           Compress(s, hdr, up, size)
    \/ \E s \in Slots : CompressEncode(s)
    \/ \E s \in Slots : CompressWrite(s)
    \/ \E s \in Slots : CompressSave(s)
    \/ \E s \in Slots : CompressInc(s)
    \/ \E s \in Slots : CompressRespond(s)
    \/ \E hdr \in Callers, id \in RecordIdInputs : DeleteRecord(hdr, id)
    \/ \E hdr \in Callers, f \in FileNames : Cleanup(hdr, f)

\* every route behind authenticateToken, on a database that holds records
NextGuarded ==
    \/ \E hdr \in Headers : Me(hdr)
    \/ \E hdr \in Headers, un \in NewNames : Profile(1, hdr, un)
    \/ ProfileSave(1)
    \/ \E hdr \in Headers, q \in HistoryQueries :
           History(hdr, q)
    \/ \E hdr \in Headers : Stats(hdr)
    \/ \E hdr \in Headers, id \in RecordIdInputs : DeleteRecord(hdr, id)
    \/ \E hdr \in Headers : AdminStats(hdr)
    \/ \E hdr \in Headers, f \in FileNames : Cleanup(hdr, f)

\* one limiter and the requests of two client addresses
NextRL ==
    \/ \E c \in Clients : LimiterRequest(c)
    \/ WindowElapsed

Spec == Init /\ [][Next]_vars
SpecAccounts == InitAccounts /\ [][NextAccounts]_vars
SpecGuarded == InitGuarded /\ [][NextGuarded]_vars
SpecRL == InitRL /\ [][NextRL]_vars

\* the record with _id i of a populated collection: the second one is the
\* admin's, the others are alice's
HistoryRecord(i) ==
    [userId |-> IF i = 2 THEN 1 ELSE 2, compressedFilename |-> i,
     originalSize |-> 12,
     compressedSize |-> IF i % 2 = 0 THEN 13 ELSE 4,
     compressionRatio |-> IF i % 2 = 0 THEN -833 ELSE 6667]

\* the counters of user u once records 1..n have been saved
HistoryStats(u, n) ==
    LET S == {i \in 1..n : HistoryRecord(i).userId = u}
        larger == {i \in S : i % 2 = 0}
    IN [count |-> Cardinality(S),
        saved |-> 8 * Cardinality(S \ larger) - Cardinality(larger)]

\* the database of Init after n recorded compressions
InitHistory ==
    \E n \in 0..MaxHistory :
        /\ users = [u \in 1..2 |->
                       [(IF u = 1 THEN SeededAdmin ELSE Alice) EXCEPT
                            !.totalCompressions = HistoryStats(u, n).count,
                            !.totalSizeSaved = HistoryStats(u, n).saved]]
        /\ records = [i \in 1..n |-> HistoryRecord(i)]
        /\ files = 1..n
        /\ nextFile = n
        /\ nextRecord = n
        /\ removed = NoneRemoved
        /\ ever = [u \in UserIds |-> IF u \in 1..2 THEN HistoryStats(u, n)
                                     ELSE [count |-> 0, saved |-> 0]]
        /\ inflight = [s \in Slots |-> Idle]
        /\ resp = Response("none", 0, "")
        /\ limiter = "compression"
        /\ hits = [c \in Clients |-> 0]
        /\ admitted = [c \in Clients |-> 0]
        /\ verdict = [status |-> 0, error |-> ""]
        /\ options = NoOptions
        /\ hook = HookInit
    /\ app = AppInit

\* the query strings of GET /api/compression/history that are tried
QueryStrings ==
    [page : {Absent, Text(<<"0">>), Text(<<"1">>), Text(<<"2">>), Text(<<"-", "1">>),
             Text(<<"x">>)},
     limit : {Absent, Text(<<"0">>), Text(<<"2">>), Text(<<"-", "2">>)},
     sortBy : {NoParam, Param("createdAt"), Param("originalSize"),
               Param("compressedSize"), Param("compressionRatio"), Param("password")},
     sortOrder : {NoParam, Param("asc")}]

NextHistory ==
    \E hdr \in Headers, q \in QueryStrings : History(hdr, q)

SpecHistory == InitHistory /\ [][NextHistory]_vars

\* the options of a compress request
InitOptions ==
    /\ users = <<>>
    /\ limiter = "compression"
    /\ InitRest

NextOptions ==
    \/ \E q \in Qualities, f \in Formats : ReadOptions(q, f)
    \/ ResolveOptions

SpecOptions == InitOptions /\ [][NextOptions]_vars

\* ------------------------------------------------------------ client hook
\* `HTTP error! status: ${response.status}`
HttpError(status) ==
    CASE status = 400 -> "HTTP error! status: 400"
      [] status = 429 -> "HTTP error! status: 429"
      [] status = 500 -> "HTTP error! status: 500"
      [] status = 502 -> "HTTP error! status: 502"
      [] OTHER -> "HTTP error! status"

\* a || b on strings
OrText(a, b) == IF a = "" THEN b ELSE a

TimeoutMessage == "Request timeout. Please try again."

Catch_KeepsData(h, name, message) ==
    [h EXCEPT !.error = IF name = "AbortError" THEN Str(TimeoutMessage)
                        ELSE Str(OrText(message, "Something went wrong"))]

\* catch (err) { ... setError(...); setCompressedData(null) }
Catch(h, name, message) ==
    [h EXCEPT !.error = IF name = "AbortError" THEN Str(TimeoutMessage)
                        ELSE Str(OrText(message, "Something went wrong")),
              !.compressedData = Null]

\* finally { setLoading(false) }: the call has settled
Finally(h) == [h EXCEPT !.loading = FALSE, !.pc = "idle", !.response = NoReply]

\* the formats the select of CompressionOptions offers
AppFormats == {"jpeg", "png", "webp"}

\* formatMap[fileExt] || 'jpeg'
FormatOf(file) ==
    CASE file = "a.jpg" -> "jpeg"
      [] file = "b.png" -> "png"
      [] OTHER -> "jpeg"

\* handleFileSelect; ImageUpload is rendered while no file is selected
FileSelect(file) ==
    /\ app.selectedFile = ""
    /\ app' = [selectedFile |-> file, format |-> FormatOf(file)]
    /\ UNCHANGED <<dbVars, inflight, resp, rlVars, options, hook>>

\* handleOptionsChange; CompressionOptions is rendered while a file is selected
OptionsChange(format) ==
    /\ app.selectedFile # ""
    /\ app' = [app EXCEPT !.format = format]
    /\ UNCHANGED <<dbVars, inflight, resp, rlVars, options, hook>>

\* handleReset behind the Try Again button, shown while error is set:
\* setSelectedFile(null), then setCompressedData is not defined in App and
\* the handler throws, so the hook and the options stay
TryAgain ==
    /\ ~hook.error.null
    /\ app' = [app EXCEPT !.selectedFile = ""]
    /\ UNCHANGED <<dbVars, inflight, resp, rlVars, options, hook>>

\* handleCompress -> compressImage up to `await fetch`: the compress button
\* is rendered while a file is selected and disabled while loading.  A timer
\* of an earlier call that is still pending stays pending.
CompressImage ==
    /\ app.selectedFile # ""
    /\ ~hook.loading
    /\ hook' = [hook EXCEPT !.loading = TRUE, !.error = Null, !.pc = "fetch",
                            !.stale = hook.timer = "armed" \/ hook.stale,
                            !.timer = "armed"]
    /\ UNCHANGED <<dbVars, inflight, resp, rlVars, options, app>>

\* the 30 s are over: controller.abort().  While fetch is pending it rejects
\* with an AbortError; after the call has settled nothing is left to abort.
TimerFires ==
    /\ hook.timer = "armed"
    /\ hook' = IF hook.pc = "fetch"
               THEN [Finally(Catch(hook, "AbortError", "The user aborted a request."))
                        EXCEPT !.timer = "off"]
               ELSE [hook EXCEPT !.timer = "off"]
    /\ UNCHANGED <<dbVars, inflight, resp, rlVars, options, app>>

\* a timer of an earlier call fires: its controller belongs to a fetch that
\* has settled
StaleTimerFires ==
    /\ hook.stale
    /\ hook' = [hook EXCEPT !.stale = FALSE]
    /\ UNCHANGED <<dbVars, inflight, resp, rlVars, options, app>>

\* fetch rejects (no connection): the catch runs, clearTimeout does not
FetchRejects(message) ==
    /\ hook.pc = "fetch"
    /\ hook' = Finally(Catch(hook, "TypeError", message))
    /\ UNCHANGED <<dbVars, inflight, resp, rlVars, options, app>>

\* fetch resolves with a Response: clearTimeout(timeoutId), then the body is
\* awaited
FetchResolves(reply) ==
    /\ hook.pc = "fetch"
    /\ hook' = [hook EXCEPT !.timer = "off", !.response = reply,
                            !.pc = IF reply.ok THEN "body" ELSE "errorBody"]
    /\ UNCHANGED <<dbVars, inflight, resp, rlVars, options, app>>

\* !response.ok: response.json().catch(() => ({})), then throw
ErrorBodyRead ==
    /\ hook.pc = "errorBody"
    /\ LET errorData == IF hook.response.json /\ ~hook.response.isNull
                        THEN hook.response ELSE NoReply
       IN hook' = Finally(Catch(hook, "Error",
                                OrText(errorData.message, HttpError(hook.response.status))))
    /\ UNCHANGED <<dbVars, inflight, resp, rlVars, options, app>>

\* response.ok: await response.json(), then data.success decides
BodyRead ==
    /\ hook.pc = "body"
    /\ LET data == hook.response IN
       hook' = IF ~data.json
               THEN Finally(Catch(hook, "SyntaxError", "Unexpected token '<'"))
               ELSE IF data.isNull
               THEN Finally(Catch(hook, "TypeError",
                                  "Cannot read properties of null (reading 'success')"))
               ELSE IF data.success
               THEN Finally([hook EXCEPT !.compressedData = Str(data.fileName)])
               ELSE Finally(Catch(hook, "Error", OrText(data.error, "Compression failed")))
    /\ UNCHANGED <<dbVars, inflight, resp, rlVars, options, app>>

\* the server has not been asked yet
InitClient ==
    /\ users = <<>>
    /\ limiter = "compression"
    /\ InitRest

NextClient ==
    \/ \E file \in ImageFiles : FileSelect(file)
    \/ \E format \in AppFormats : OptionsChange(format)
    \/ TryAgain
    \/ CompressImage
    \/ TimerFires
    \/ StaleTimerFires
    \/ \E message \in NetworkErrors : FetchRejects(message)
    \/ \E reply \in Replies : FetchResolves(reply)
    \/ ErrorBodyRead
    \/ BodyRead

SpecClient == InitClient /\ [][NextClient]_vars

\* -------------------------------------------------------------- claims
\* the token of hdr verifies: it is there, signed with the secret, in force
Verifies(hdr) == hdr.kind = "bearer" /\ hdr.signed /\ ~hdr.expired

\* C1: a POST /api/compress without a token that verifies attaches no
\* identity; no step of such a request creates a CompressionRecord, changes a
\* user's counters or performs a database operation, and its response carries
\* no recordId.
C1_AnonymousNotPersisted ==
    [][\A s \in Slots :
          inflight'[s] # inflight[s] =>
              /\ \A hdr \in Headers, up \in UploadKinds, size \in OriginalSizes :
                     (~Verifies(hdr) /\ Compress(s, hdr, up, size))
                         => inflight'[s].user = NoUser
              /\ (inflight[s].op = "compress" /\ inflight[s].user = NoUser)
                     => /\ records' = records
                        /\ users' = users
                        /\ ever' = ever
                        /\ nextRecord' = nextRecord
                        /\ inflight'[s].dbOps = 0
                        /\ inflight'[s] = Idle
                               => resp'.recordId = NoRecord /\ resp'.dbOps = 0]_vars

\* an anonymous compression has been answered 200: the artifact is on disk,
\* no record exists
C1_Witness ==
    /\ resp.op = "compress" /\ resp.status = 200
    /\ resp.userId = NoUser /\ resp.recordId = NoRecord
    /\ files # {} /\ DOMAIN records = {}

\* C2: DELETE /api/compression/history/:recordId by a user with the id of
\* another user's record is answered 404 'Record not found', as for the id
\* of no record, and the record and its artifact stay.
C2_ForeignDeleteNotFound ==
    [][resp'.op = "delete" =>
          \A hdr \in Callers, id \in RecordIds :
              ((id \notin DOMAIN records \/ records[id].userId # hdr.userId)
                   /\ Verifies(hdr) /\ DeleteRecord(hdr, id))
                  => /\ resp'.status = 404 /\ resp'.error = "Record not found"
                     /\ records' = records
                     /\ files' = files]_vars

\* a user has been answered 404 for the id of a record that another user
\* owns and whose artifact is on disk
C2_Witness ==
    /\ resp.op = "delete" /\ resp.status = 404
    /\ resp.recordId \in DOMAIN records
    /\ records[resp.recordId].userId # resp.userId
    /\ records[resp.recordId].compressedFilename \in files

\* C3: DELETE /api/cleanup/:filename by user A removes an artifact file only
\* if A owns a CompressionRecord whose compressedFilename is that filename.
C3_CleanupOwnerScoped ==
    [][files' # files =>
          \A hdr \in Headers, f \in files \ files' :
              Cleanup(hdr, f)
                  => \E r \in DOMAIN records :
                         /\ records[r].compressedFilename = f
                         /\ records[r].userId = hdr.userId]_vars

\* C4: for every user with no compression request in flight, totalCompressions
\* is the number of CompressionRecords ever created for the user and
\* totalSizeSaved the sum of their savings.
InFlightOf(u) == {s \in Slots : inflight[s].op = "compress" /\ inflight[s].user = u}

C5_RateLimit ==
    [][LET max == IF limiter = "auth" THEN 10 ELSE 100
           message == IF limiter = "auth"
                      THEN "Too many authentication attempts from this IP, please try again later."
                      ELSE "Too many compression requests from this IP, please try again later."
       IN \A c \in Clients :
              /\ admitted'[c] <= max
              /\ (hits[c] >= max /\ LimiterRequest(c))
                     => /\ verdict' = [status |-> 429, error |-> message]
                        /\ admitted' = admitted
              /\ (hits[c] < max /\ LimiterRequest(c))
                     => /\ verdict'.status = 0
                        /\ admitted'[c] = admitted[c] + 1
              /\ WindowElapsed => hits'[c] = 0 /\ admitted'[c] = 0]_vars

\* the compression limiter has passed on 100 requests of one address and
\* has answered the next one 429
C5_Witness ==
    /\ limiter = "compression"
    /\ verdict.status = 429
    /\ \E c \in Clients : admitted[c] = 100 /\ hits[c] = 101

\* C6: on every route behind authenticateToken a request without a token is
\* answered 401 and one with an invalid or expired token 403, the handler
\* does not run and nothing changes; the handler runs only with req.user set
\* to the claims of the verified token.
GuardedOps == {"me", "profile", "history", "stats", "delete", "admin", "cleanup"}

\* what the middleware must have done with hdr in this step
Guarded(hdr) ==
    IF hdr.kind # "bearer"
    THEN /\ resp'.status = 401 /\ resp'.error = "Access token required"
         /\ resp'.userId = NoUser
         /\ UNCHANGED <<dbVars, inflight>>
    ELSE IF ~hdr.signed \/ hdr.expired
    THEN /\ resp'.status = 403 /\ resp'.error = "Invalid or expired token"
         /\ resp'.userId = NoUser
         /\ UNCHANGED <<dbVars, inflight>>
    ELSE \/ resp'.userId = hdr.userId
         \/ \E s \in Slots : /\ inflight'[s] # inflight[s]
                             /\ inflight'[s].op = "profile"
                             /\ inflight'[s].user = hdr.userId

C6_AuthenticateToken ==
    [][/\ resp'.op = "me" => \A hdr \in Headers : Me(hdr) => Guarded(hdr)
       /\ (resp'.op = "profile" \/ inflight' # inflight) =>
              \A hdr \in Headers, s \in Slots, un \in Usernames :
                  Profile(s, hdr, un) => Guarded(hdr)
       /\ resp'.op = "history" =>
              \A hdr \in Headers, q \in HistoryQueries :
                  History(hdr, q) => Guarded(hdr)
       /\ resp'.op = "stats" => \A hdr \in Headers : Stats(hdr) => Guarded(hdr)
       /\ resp'.op = "delete" =>
              \A hdr \in Headers, id \in RecordIdInputs :
                  DeleteRecord(hdr, id) => Guarded(hdr)
       /\ resp'.op = "admin" => \A hdr \in Headers : AdminStats(hdr) => Guarded(hdr)
       /\ resp'.op = "cleanup" =>
              \A hdr \in Headers, f \in FileNames :
                  Cleanup(hdr, f) => Guarded(hdr)]_vars

\* a guarded route has answered 403 and the records and artifacts are all
\* still there
C6_Witness ==
    /\ resp.op \in GuardedOps /\ resp.status = 403
    /\ resp.error = "Invalid or expired token"
    /\ DOMAIN records = {1, 2} /\ files = {1, 2}

\* C7: optionalAuth calls next() once and sends nothing, whatever the header;
\* it attaches an identity exactly when the token verifies, so that the
\* compress handler takes a request with a bad token as an anonymous one.
C7_OptionalAuth ==
    \A hdr \in Headers :
        LET identity == IF Verifies(hdr) THEN hdr.userId ELSE NoUser IN
        /\ OptionalAuth(hdr).nextCalls = 1
        /\ OptionalAuth(hdr).status = 0
        /\ OptionalAuth(hdr).user = identity
        /\ \A s \in Slots, up \in UploadKinds, size \in OriginalSizes :
               ~ENABLED (/\ Compress(s, hdr, up, size)
                         /\ ~(/\ resp' = resp \/ resp'.status \in {400, 500}
                              /\ inflight'[s] # Idle => inflight'[s].user = identity
                              /\ ~Verifies(hdr) => Compress(s, NoHeader, up, size)))

\* two compressions are in flight, one without an identity and one with
C7_Witness ==
    /\ inflight[1].op = "compress" /\ inflight[1].user = NoUser
    /\ inflight[2].op = "compress" /\ inflight[2].user # NoUser

\* C8: register with a username or an email that an existing user holds is
\* answered 400 with the conflict error; no token is issued and no user is
\* created or modified, also when only one of the two collides.
C8_RegisterConflict ==
    \A s \in Slots, un \in Usernames, em \in Emails, pw \in Passwords :
        (/\ un # "" /\ em # "" /\ pw # "" /\ Len(pw) >= 6
         /\ \E u \in DOMAIN users :
                users[u].username = un \/ users[u].email = Lower(em))
            => ~ENABLED (/\ Register(s, un, em, pw)
                         /\ ~(/\ resp'.status = 400
                              /\ resp'.error = "User already exists with this email or username"
                              /\ resp'.token = NoToken
                              /\ users' = users
                              /\ inflight' = inflight))

\* a registration has been refused as a conflict while a user exists
C8_Witness ==
    /\ resp.op = "register" /\ resp.status = 400
    /\ resp.error = "User already exists with this email or username"
    /\ Len(users) >= 1

\* C9: register with a field missing or a password shorter than 6 characters
\* is answered with a 400 validation error; no user is created and no token
\* issued.
C9_RegisterValidation ==
    \A s \in Slots, un \in Usernames, em \in Emails, pw \in Passwords :
        (un = "" \/ em = "" \/ pw = "" \/ Len(pw) < 6)
            => ~ENABLED (/\ Register(s, un, em, pw)
                         /\ ~(/\ resp'.status = 400
                              /\ resp'.error \in {"All fields are required",
                                                  "Password must be at least 6 characters long"}
                              /\ resp'.token = NoToken
                              /\ users' = users
                              /\ inflight' = inflight))

\* a registration has been refused for its short password
C9_Witness ==
    /\ resp.op = "register" /\ resp.status = 400
    /\ resp.error = "Password must be at least 6 characters long"

\* C10: login answers an unknown email and a known email with a wrong
\* password with one and the same response, 401 'Invalid credentials'; it
\* issues a token only when the email is a user's and the password verifies
\* against that user's stored hash.
C10_LoginUniform ==
    \A em \in Emails, pw \in Passwords :
        LET known == {u \in DOMAIN users : users[u].email = Lower(em)}
            match == {u \in known : users[u].password = Hash(pw)}
        IN ~ENABLED (/\ Login(em, pw)
                     /\ ~(/\ (em # "" /\ pw # "" /\ match = {})
                              => resp' = [op |-> "login", status |-> 401,
                                          error |-> "Invalid credentials",
                                          userId |-> NoUser, token |-> NoToken,
                                          recordId |-> NoRecord, dbOps |-> 0,
                                          body |-> NoBody]
                          /\ resp'.token # NoToken
                              => /\ em # "" /\ pw # ""
                                 /\ resp'.userId \in match
                                 /\ resp'.token.userId = resp'.userId
                                 /\ resp'.token.signed
                          /\ users' = users))

\* a login has been answered 401 while a user with another password exists
C10_Witness ==
    /\ resp.op = "login" /\ resp.status = 401
    /\ resp.error = "Invalid credentials"
    /\ Len(users) >= 1

\* C11: the resolved quality is the quality field parsed as an integer and
\* clamped to [10, 100]: 10 for every integer below 10 (0 and the negatives
\* too), 100 for every integer above 100; it is 80 only when the field is
\* absent or does not parse.
C11_QualityClamped ==
    options.resolved =>
        LET parsed == IF options.quality.present
                      THEN ParseInt(options.quality.text) ELSE NaN
        IN IF parsed.nan THEN options.qualityValue = 80
           ELSE IF parsed.val < 10 THEN options.qualityValue = 10
           ELSE IF parsed.val > 100 THEN options.qualityValue = 100
           ELSE options.qualityValue = parsed.val

\* C12: a successful compression reports (originalSize - compressedSize) /
\* originalSize * 100 to two decimals, the nearest hundredth, negative when
\* the result is larger than the original, with status 200; the record of
\* an authenticated compression stores the number the response shows.
C12_CompressionRatio ==
    [][\A s \in Slots :
          (/\ inflight[s].op = "compress" /\ inflight[s].pc = "respond"
           /\ inflight'[s] # inflight[s]) =>
              LET o == inflight[s].originalSize
                  c == inflight[s].compressedSize
                  ratio == resp'.body.compressionRatio
                  shown == ParseFloat(ratio)
              IN /\ resp'.op = "compress" /\ resp'.status = 200
                 /\ ~shown.nan
                 /\ Len(ratio) >= 4 /\ ratio[Len(ratio) - 2] = "."
                 /\ 2 * Abs(shown.val * o - (o - c) * 10000) <= o
                 /\ (c > o) = (shown.val < 0)
                 /\ inflight[s].recordId \in DOMAIN records
                        => records[inflight[s].recordId].compressionRatio
                               = shown.val]_vars

\* a compression that made the image larger has been answered 200 with a
\* negative ratio that needed rounding, and its record stores that ratio
C12_Witness ==
    /\ resp.op = "compress" /\ resp.status = 200
    /\ resp.body.compressionRatio = <<"-", "8", ".", "3", "3">>
    /\ resp.recordId \in DOMAIN records
    /\ records[resp.recordId].compressionRatio = -833

\* C13: the history listing is answered 400 whenever sortBy is none of
\* createdAt, originalSize, compressedSize, compressionRatio, or page or
\* limit is an integer below 1, page=0 and limit=0 included; the defaults
\* stand in for absent parameters only.
C13_HistoryValidation ==
    \A hdr \in Callers, q \in QueryStrings :
        LET page == ParseParam(q.page)
            limit == ParseParam(q.limit)
        IN (\/ q.sortBy.present /\ q.sortBy.name \notin ValidSortFields
            \/ ~page.nan /\ page.val < 1
            \/ ~limit.nan /\ limit.val < 1)
               => ~ENABLED (History(hdr, q) /\ resp'.status # 400)

\* the rank of record r among the records of u under the requested order:
\* how many come strictly before it, and how many come before or with it
Before(u, r, sortBy, dir) ==
    {x \in DOMAIN records :
        /\ records[x].userId = u
        /\ dir * SortKey(x, sortBy) < dir * SortKey(r, sortBy)}
UpTo(u, r, sortBy, dir) ==
    {x \in DOMAIN records :
        /\ records[x].userId = u
        /\ dir * SortKey(x, sortBy) <= dir * SortKey(r, sortBy)}

\* C14: for a page and a limit of at least 1 and a sortBy of the list, the
\* listing is answered 200 with the elements at positions (page-1)*limit ..
\* page*limit-1 of the caller's records in the requested order and no record
\* of another user, total the number of the caller's records and pages
\* ceil(total / limit).  The response names the page, limit and order it
\* was computed for; the collection does not change while it is listed.
C14_HistoryPage ==
    /\ \A hdr \in Callers, q \in QueryStrings :
           LET page == IF q.page.present THEN ParseParam(q.page) ELSE Number(1)
               limit == IF q.limit.present THEN ParseParam(q.limit) ELSE Number(10)
               sortBy == IF q.sortBy.present THEN q.sortBy.name ELSE "createdAt"
               sortOrder == IF q.sortOrder = Param("asc") THEN "asc" ELSE "desc"
           IN (/\ ~page.nan /\ page.val >= 1
               /\ ~limit.nan /\ limit.val >= 1
               /\ sortBy \in ValidSortFields)
                  => /\ ENABLED History(hdr, q)
                     /\ ~ENABLED (/\ History(hdr, q)
                                  /\ ~(/\ resp'.status = 200
                                       /\ resp'.userId = hdr.userId
                                       /\ resp'.body.page = page.val
                                       /\ resp'.body.limit = limit.val
                                       /\ resp'.body.sortBy = sortBy
                                       /\ resp'.body.sortOrder = sortOrder))
    /\ (resp.op = "history" /\ resp.status = 200) =>
           LET u == resp.userId
               b == resp.body
               dir == IF b.sortOrder = "asc" THEN 1 ELSE -1
               own == {r \in DOMAIN records : records[r].userId = u}
               n == Cardinality(own)
           IN /\ b.total = n
              /\ b.pages >= 0
              /\ b.pages * b.limit >= n
              /\ (b.pages - 1) * b.limit < n
              /\ Len(b.items) = Max(0, Min(b.limit, n - (b.page - 1) * b.limit))
              /\ \A i \in DOMAIN b.items :
                     LET r == b.items[i]
                         pos == (b.page - 1) * b.limit + i
                     IN /\ r \in own
                        /\ \A j \in DOMAIN b.items : j # i => b.items[j] # r
                        /\ Cardinality(Before(u, r, b.sortBy, dir)) < pos
                        /\ pos <= Cardinality(UpTo(u, r, b.sortBy, dir))
              /\ \A i, j \in DOMAIN b.items :
                     i < j => dir * SortKey(b.items[i], b.sortBy)
                                  <= dir * SortKey(b.items[j], b.sortBy)

\* alice, who has three records beside the admin's one, has been sent the
\* second page of two: her one remaining record, total 3, pages 2
C14_Witness ==
    /\ resp.op = "history" /\ resp.status = 200
    /\ resp.userId = 2
    /\ Cardinality(DOMAIN records) = 4
    /\ resp.body.page = 2 /\ resp.body.limit = 2
    /\ Len(resp.body.items) = 1
    /\ resp.body.total = 3 /\ resp.body.pages = 2

\* C15: DELETE /api/compression/history/:recordId by the owner of the record
\* is answered 200 and leaves neither the record nor its artifact, also when
\* the artifact was no longer on disk.
C15_DeleteRemovesBoth ==
    \A hdr \in Callers, id \in RecordIds :
        (id \in DOMAIN records /\ records[id].userId = hdr.userId) =>
            /\ ENABLED DeleteRecord(hdr, id)
            /\ ~ENABLED (/\ DeleteRecord(hdr, id)
                         /\ ~(/\ resp'.status = 200
                              /\ id \notin DOMAIN records'
                              /\ records[id].compressedFilename \notin files'))

\* an owner's delete has been answered 200 although the artifact was
\* missing: the record is gone
C15_Witness ==
    /\ resp.op = "delete" /\ resp.status = 200
    /\ ~resp.body.unlinked
    /\ resp.recordId \notin DOMAIN records

\* C16: DELETE /api/cleanup/:filename is answered 404 exactly when uploadsDir
\* holds no file of that name at the check, whether or not the caller had a
\* record for it; otherwise it is answered 200 and the file is gone.
C16_CleanupNotFound ==
    \A hdr \in Callers, f \in FileNames :
        /\ ENABLED Cleanup(hdr, f)
        /\ ~ENABLED (/\ Cleanup(hdr, f)
                     /\ ~(IF f \in files
                          THEN resp'.status = 200 /\ f \notin files'
                          ELSE resp'.status = 404 /\ files' = files))

\* a cleanup has been answered 404 although the caller had a record for the
\* file name
C16_Witness ==
    /\ resp.op = "cleanup" /\ resp.status = 404
    /\ resp.recordId # NoRecord
    /\ resp.body.fileName \notin files

\* C17: GET /api/admin/stats gives the aggregate over all users to a caller
\* whose user document has role admin; any other authenticated caller is
\* answered 403 and gets no aggregate.
C17_AdminOnly ==
    \A hdr \in Callers :
        /\ ENABLED AdminStats(hdr)
        /\ ~ENABLED (/\ AdminStats(hdr)
                     /\ ~(IF users[hdr.userId].role = "admin"
                          THEN /\ resp'.status = 200
                               /\ resp'.body.stats.present
                               /\ resp'.body.stats.totalUsers = Len(users)
                               /\ resp'.body.stats.totalCompressions
                                      = Cardinality(DOMAIN records)
                          ELSE /\ resp'.status = 403
                               /\ resp'.error = "Admin access required"
                               /\ resp'.body = NoBody))

\* alice, whose role is user, has been answered 403 without an aggregate
\* while records of two users exist
C17_Witness ==
    /\ resp.op = "admin" /\ resp.status = 403
    /\ resp.userId \in DOMAIN users /\ users[resp.userId].role = "user"
    /\ ~resp.body.stats.present
    /\ Cardinality(DOMAIN records) = 2

\* C18: a compress request that fails in the metadata read, the resize or the
\* encoding is answered 500 'Compression failed' and leaves uploadsDir, the
\* compression records and the users' counters as they were.
C18_FailureLeavesNothing ==
    [][\A s \in Slots :
          (/\ inflight[s].op = "compress" /\ inflight[s].pc = "encode"
           /\ inflight'[s] # inflight[s]
           /\ inflight'[s].pc # "write")
          => /\ resp'.op = "compress" /\ resp'.status = 500
             /\ resp'.error = "Compression failed"
             /\ resp'.recordId = NoRecord
             /\ inflight'[s] = Idle
             /\ files' = files /\ records' = records /\ users' = users]_vars

\* a request has failed in the codec while artifacts and records of earlier
\* requests exist: they are all still there
C18_Witness ==
    /\ resp.op = "compress" /\ resp.status = 500
    /\ resp.body.message = "Input buffer contains unsupported image format"
    /\ files # {} /\ DOMAIN records # {}
    /\ \A r \in DOMAIN records : records[r].compressedFilename \in files

\* the hook has settled in a proper state: not loading, and exactly one of
\* compressedData and error is set
Settled(h) ==
    /\ ~h.loading
    /\ h.compressedData.null # h.error.null

\* C19: while the compress response has not arrived the 30 s timer is
\* pending, and when it fires the call ends failed: error is the timeout
\* message, compressedData is null, loading is false.  Every step that
\* settles a compressImage call leaves loading false and exactly one of
\* compressedData and error set.
C19_HookSettles ==
    /\ hook.loading <=> hook.pc # "idle"
    /\ hook.pc = "fetch" =>
           /\ hook.timer = "armed"
           /\ ENABLED TimerFires
           /\ ~ENABLED (/\ TimerFires
                        /\ ~(/\ hook'.pc = "idle"
                             /\ hook'.error = Str(TimeoutMessage)
                             /\ hook'.compressedData = Null
                             /\ ~hook'.loading))
    /\ hook.pc # "idle" =>
           ~ENABLED (/\ NextClient
                     /\ hook'.pc = "idle"
                     /\ ~Settled(hook'))

\* a call has ended by the timeout, its timer is gone and the compress
\* button is enabled again
C19_Witness ==
    /\ hook.pc = "idle" /\ ~hook.loading
    /\ hook.error = Str(TimeoutMessage)
    /\ hook.compressedData = Null
    /\ hook.timer = "off"
    /\ ENABLED CompressImage

\* the authenticated compress requests of u whose $inc is still to come
PendingInc(u) ==
    {t \in Slots : /\ inflight[t].op = "compress" /\ inflight[t].user = u
                   /\ inflight[t].pc = "inc"}

\* the counters of u hold every record ever saved for u but those of the
\* requests in PendingInc(u)
Counted(u) ==
    /\ users[u].totalCompressions = ever[u].count - Cardinality(PendingInc(u))
    /\ \/ PendingInc(u) # {}
       \/ users[u].totalSizeSaved = ever[u].saved

\* C20 as stated: when the success response with a recordId is sent, the
\* artifact is in uploadsDir, the record with that id exists and names the
\* artifact, and the owner's counters hold the compression.
C20_RespondedMeansStored ==
    \A s \in Slots :
        (/\ inflight[s].op = "compress" /\ inflight[s].pc = "respond"
         /\ inflight[s].recordId # NoRecord)
        => /\ inflight[s].fileName \in files
           /\ inflight[s].recordId \in DOMAIN records
           /\ records[inflight[s].recordId].compressedFilename = inflight[s].fileName
           /\ Counted(inflight[s].user)

\* C20, amended: when the success response with a recordId is sent, the
\* request has written the artifact, saved the record that names it and
\* incremented the owner's counters, in this order; the artifact and the
\* record are still there unless a delete or cleanup request removed them
\* since.
C20_RespondedAfterStored ==
    \A s \in Slots :
        (/\ inflight[s].op = "compress" /\ inflight[s].user # NoUser
         /\ inflight[s].pc \in {"save", "inc", "respond"})
        => LET r == inflight[s] IN
           /\ r.fileName \in files \/ r.fileName \in removed.files
           /\ r.pc = "save" => r.recordId = NoRecord /\ r.dbOps = 0
           /\ r.pc \in {"inc", "respond"} =>
                  /\ r.recordId # NoRecord
                  /\ \/ /\ r.recordId \in DOMAIN records
                        /\ records[r.recordId].compressedFilename = r.fileName
                        /\ records[r.recordId].userId = r.user
                     \/ r.recordId \in removed.records
           /\ r.pc = "inc" => r.dbOps = 1
           /\ r.pc = "respond" =>
                  /\ r.dbOps = 2
                  /\ Counted(r.user)
                  /\ ENABLED CompressRespond(s)
                  /\ ~ENABLED (/\ CompressRespond(s)
                               /\ ~(/\ resp'.status = 200
                                    /\ resp'.recordId = r.recordId
                                    /\ resp'.body.fileName = r.fileName))

\* a request is about to answer with its recordId while its record and its
\* artifact have been removed; the owner's counters hold the compression
C20_Witness ==
    \E s \in Slots :
        /\ inflight[s].op = "compress" /\ inflight[s].pc = "respond"
        /\ inflight[s].recordId \in removed.records
        /\ inflight[s].fileName \in removed.files
        /\ users[inflight[s].user].totalCompressions >= 1

\* C21: whatever the interleaving of register and profile requests, no two
\* users hold the same username or the same lower-case email; a request whose
\* username or email another request has taken since its findOne neither
\* creates nor renames a user.
C21_UniqueUsers ==
    /\ \A u, v \in DOMAIN users :
           u # v => /\ users[u].username # users[v].username
                    /\ users[u].email # users[v].email
    /\ \A s \in Slots :
           (/\ inflight[s].op = "register" /\ inflight[s].pc = "save"
            /\ \E v \in DOMAIN users :
                   \/ users[v].username = inflight[s].username
                   \/ users[v].email = Lower(inflight[s].email))
           => /\ ENABLED RegisterSave(s)
              /\ ~ENABLED (RegisterSave(s) /\ (users' # users \/ resp'.status # 500))
    /\ \A s \in Slots :
           (/\ inflight[s].op = "profile" /\ inflight[s].pc = "save"
            /\ inflight[s].username # ""
            /\ \E v \in DOMAIN users \ {inflight[s].user} :
                   users[v].username = inflight[s].username)
           => /\ ENABLED ProfileSave(s)
              /\ ~ENABLED (ProfileSave(s) /\ (users' # users \/ resp'.status # 500))

\* a registration that passed findOne has been rejected by a unique index:
\* another request took the username or the email first
C21_Witness ==
    /\ resp.op = "register" /\ resp.status = 500
    /\ resp.body.message = "E11000 duplicate key error"
    /\ Len(users) >= 1

\* C22: no delete of a record and no cleanup changes any user's
\* compressionStats, whoever calls and whatever the answer; the counters stay
\* at the number of records ever saved while the aggregate over the
\* remaining records falls below them once a record is deleted.
C22_DeletesKeepCounters ==
    /\ \A hdr \in Headers, id \in RecordIdInputs :
           ~ENABLED (DeleteRecord(hdr, id) /\ users' # users)
    /\ \A hdr \in Headers, f \in FileNames :
           ~ENABLED (Cleanup(hdr, f) /\ users' # users)
    /\ \A u \in DOMAIN users :
           /\ users[u].totalCompressions = ever[u].count
           /\ users[u].totalSizeSaved = ever[u].saved
           /\ Cardinality(RecordsOf(u)) <= users[u].totalCompressions
           /\ removed.records = {} =>
                  Cardinality(RecordsOf(u)) = users[u].totalCompressions

\* after a deletion the stats route has reported an aggregate of fewer
\* compressions than the counters next to it
C22_Witness ==
    /\ resp.op = "stats" /\ resp.status = 200
    /\ removed.records # {}
    /\ resp.body.stats.totalCompressions < resp.body.stats.userStats.totalCompressions
    /\ resp.body.stats.userStats.totalCompressions = users[resp.userId].totalCompressions

\* C23: a cleanup by a caller who has a record for the file name, while no
\* such file is on disk, is answered 404 and yet deletes the record: the
\* record is removed before the disk is looked at.
C23_CleanupNotFoundDeletes ==
    \A hdr \in Callers, f \in FileNames :
        LET owned == OwnedByName(hdr.userId, f) IN
        (owned # {} /\ f \notin files) =>
            /\ ENABLED Cleanup(hdr, f)
            /\ ~ENABLED (/\ Cleanup(hdr, f)
                         /\ ~(/\ resp'.status = 404
                              /\ resp'.error = "File not found"
                              /\ owned \cap DOMAIN records' = {}
                              /\ records' # records
                              /\ files' = files /\ users' = users))

\* a cleanup answered 404 has taken the caller's record out of the
\* collection; the caller's counters still hold the compression
C23_Witness ==
    /\ resp.op = "cleanup" /\ resp.status = 404
    /\ resp.recordId \in removed.records
    /\ resp.recordId \notin DOMAIN records
    /\ resp.userId \in DOMAIN users
    /\ users[resp.userId].totalCompressions >= 1
====
